---- MODULE Spec2Model ----
(***************************************************************************)
(* Model of mod-system/zfs_linux.go: the ZFS resource of nagocheck.        *)
(*                                                                         *)
(* A text line is a sequence of one-character strings.  A stream (what an  *)
(* io.Reader delivers to a bufio.Scanner) is a record                      *)
(*     [lines |-> the lines the scanner yields, rdErr |-> BOOLEAN]         *)
(* where rdErr says that the underlying read ends with an error other than *)
(* io.EOF after the last line.  An unsigned 64-bit value is its decimal    *)
(* expansion, a sequence of digits 0..9 without leading zeros, so that the *)
(* full width of uint64 is kept.                                           *)
(***************************************************************************)
EXTENDS Integers, Sequences, FiniteSets, TLC

VARIABLES
    globalStats,   \* r.globalStats: [arcSize, arcHits, arcMisses]
    poolStats,     \* r.poolStats: [isNil, m], m a map pool name -> zfsPoolStats
    warnings,      \* the WarningCollection handed to the running Collect call
    pc,            \* position of the running Collect call
    err,           \* value returned by the last Collect call
    globMatches,   \* result of filepath.Glob in the running call
    rest,          \* matches the loop of collectPools has not visited yet
    stored,        \* pool names assigned at r.poolStats[poolName] in this call
    handles,       \* file handles opened by this call and not closed
    files,         \* the files the last step read
    passes,        \* number of Collect calls started
    input,         \* pure-parser runs: the stream handed to the parser
    pos,           \* pure-parser runs: number of lines scanned
    pstate,        \* pure-parser runs: the parser's local variables
    ret            \* pure-parser runs: the parser's outcome

vars == <<globalStats, poolStats, warnings, pc, err, globMatches, rest, stored,
          handles, files, passes, input, pos, pstate, ret>>

resourceVars == <<globalStats, poolStats, warnings, pc, err, globMatches, rest,
                  stored, handles, files, passes>>

parserVars == <<input, pos, pstate, ret>>

(***************************************************************************)
(* Bounds of the model.                                                    *)
(***************************************************************************)
MaxPasses == 2      \* Collect calls in one behaviour
MaxPools == 2       \* paths one Glob call matches
MaxLines == 3       \* lines of a stream handed to a parser on its own

(***************************************************************************)
(* Characters and the strings package.                                     *)
(***************************************************************************)
Lower == <<"a","b","c","d","e","f","g","h","i","j","k","l","m",
           "n","o","p","q","r","s","t","u","v","w","x","y","z">>
Upper == <<"A","B","C","D","E","F","G","H","I","J","K","L","M",
           "N","O","P","Q","R","S","T","U","V","W","X","Y","Z">>
Digits == <<"0","1","2","3","4","5","6","7","8","9">>

\* unicode.IsSpace on the ASCII range
IsSpace(c) == c \in {" ", "\t", "\r", "\n", "\f"}

ToUpperChar(c) ==
    IF \E i \in 1..Len(Lower) : Lower[i] = c
    THEN Upper[CHOOSE i \in 1..Len(Lower) : Lower[i] = c]
    ELSE c

\* strings.ToUpper
ToUpper(s) == [i \in 1..Len(s) |-> ToUpperChar(s[i])]

SetMin(S) == CHOOSE x \in S : \A y \in S : x <= y
SetMax(S) == CHOOSE x \in S : \A y \in S : y <= x

\* strings.TrimSpace
TrimSpace(s) ==
    LET ns == {i \in 1..Len(s) : ~IsSpace(s[i])}
    IN  IF ns = {} THEN <<>> ELSE SubSeq(s, SetMin(ns), SetMax(ns))

\* the fields of s from position i on
RECURSIVE FieldsFrom(_, _)
FieldsFrom(s, i) ==
    LET ns == {j \in i..Len(s) : ~IsSpace(s[j])}
    IN  IF ns = {}
        THEN <<>>
        ELSE LET first == SetMin(ns)
                 last == SetMin({j \in first..Len(s) : j = Len(s) \/ IsSpace(s[j + 1])})
             IN  <<SubSeq(s, first, last)>> \o FieldsFrom(s, last + 1)

\* strings.Fields: the maximal runs of non-space characters, in order
Fields(s) == FieldsFrom(s, 1)

\* bufio.ScanLines hands out a line without its trailing carriage return
ScanText(line) ==
    IF Len(line) > 0 /\ line[Len(line)] = "\r"
    THEN SubSeq(line, 1, Len(line) - 1)
    ELSE line

(***************************************************************************)
(* strconv.ParseUint(s, 10, 64).                                           *)
(***************************************************************************)
IsDigit(c) == \E i \in 1..Len(Digits) : Digits[i] = c
DigitVal(c) == (CHOOSE i \in 1..Len(Digits) : Digits[i] = c) - 1

Zero == <<0>>
MaxUint64 == <<1,8,4,4,6,7,4,4,0,7,3,7,0,9,5,5,1,6,1,5>>

\* the decimal expansion without leading zeros
Normalize(ds) ==
    LET nz == {i \in 1..Len(ds) : ds[i] # 0}
    IN  IF nz = {} THEN Zero ELSE SubSeq(ds, SetMin(nz), Len(ds))

\* a <= b for two normalized expansions
NumLeq(a, b) ==
    \/ Len(a) < Len(b)
    \/ /\ Len(a) = Len(b)
       /\ \/ a = b
          \/ \E i \in 1..Len(a) :
                /\ a[i] < b[i]
                /\ \A j \in 1..(i - 1) : a[j] = b[j]

ParseUint(s) ==
    IF Len(s) = 0 \/ \E i \in 1..Len(s) : ~IsDigit(s[i])
    THEN [ok |-> FALSE, value |-> Zero]
    ELSE LET v == Normalize([i \in 1..Len(s) |-> DigitVal(s[i])])
         IN  IF NumLeq(v, MaxUint64)
             THEN [ok |-> TRUE, value |-> v]
             ELSE [ok |-> FALSE, value |-> MaxUint64]

(***************************************************************************)
(* String literals of the source.                                          *)
(***************************************************************************)
S_name == <<"n","a","m","e">>
S_type == <<"t","y","p","e">>
S_data == <<"d","a","t","a">>
S_size == <<"s","i","z","e">>
S_hits == <<"h","i","t","s">>
S_misses == <<"m","i","s","s","e","s">>
S_nread == <<"n","r","e","a","d">>
S_nwritten == <<"n","w","r","i","t","t","e","n">>
S_reads == <<"r","e","a","d","s">>
S_writes == <<"w","r","i","t","e","s">>
zfsTypeUint64 == <<"4">>

(***************************************************************************)
(* Errors: the message prefixes from the outermost wrapper inwards, and    *)
(* the column or metric key the innermost message names.                   *)
(***************************************************************************)
NoErr == [msg |-> <<>>, key |-> <<>>]
NewErr(text, key) == [msg |-> <<text>>, key |-> key]
\* fmt.Errorf("<prefix>: %s", err.Error())
Wrap(prefix, e) == [e EXCEPT !.msg = <<prefix>> \o e.msg]

EmptyMap == [k \in {} |-> Zero]
\* m[k] = v on a Go map
MapSet(m, k, v) == (k :> v) @@ m

(***************************************************************************)
(* parseGlobalStats                                                        *)
(***************************************************************************)
globalInit == [skipParsing |-> TRUE, metrics |-> EmptyMap, warns |-> <<>>]

\* variant: every metric row is read as an unsigned integer, whatever its type
globalMetric_AnyType(st, parts) ==
    LET p == ParseUint(parts[3])
    IN  IF ~p.ok
        THEN [st EXCEPT !.warns = Append(@,
                 [text |-> "could not parse metric as uint64",
                  key |-> parts[1], value |-> parts[3]])]
        ELSE [st EXCEPT !.metrics = MapSet(@, parts[1], p.value)]

\* the switch on metricType
globalMetric(st, parts) ==
    IF parts[2] = zfsTypeUint64
    THEN LET p == ParseUint(parts[3])
         IN  IF ~p.ok
             THEN [st EXCEPT !.warns = Append(@,
                      [text |-> "could not parse metric as uint64",
                       key |-> parts[1], value |-> parts[3]])]
             ELSE [st EXCEPT !.metrics = MapSet(@, parts[1], p.value)]
    ELSE st

\* one iteration of the scanner loop
globalLine(st, line) ==
    LET parts == Fields(ScanText(line))
    IN  IF st.skipParsing /\ Len(parts) = 3 /\ parts[1] = S_name
           /\ parts[2] = S_type /\ parts[3] = S_data
        THEN [st EXCEPT !.skipParsing = FALSE]
        ELSE IF st.skipParsing \/ Len(parts) < 3
             THEN st
             ELSE globalMetric(st, parts)

\* what the function returns once the scanner is exhausted
globalReturn(st) ==
    [metrics |-> st.metrics,
     warns |-> st.warns,
     err |-> IF st.skipParsing
             THEN NewErr("no global statistics have been parsed", <<>>)
             ELSE NoErr]

RECURSIVE globalScan(_, _, _)
globalScan(st, lines, i) ==
    IF i > Len(lines) THEN st ELSE globalScan(globalLine(st, lines[i]), lines, i + 1)

parseGlobalStats(stream) == globalReturn(globalScan(globalInit, stream.lines, 1))

(***************************************************************************)
(* parsePoolIOStats                                                        *)
(***************************************************************************)
ZeroIO == [readCount |-> Zero, writeCount |-> Zero,
           bytesRead |-> Zero, bytesWritten |-> Zero]

ioInit == [skipParsing |-> TRUE, fields |-> <<>>, stats |-> ZeroIO,
           outcome |-> "scan", err |-> NoErr]

\* variant: a header of eleven columns is accepted
IsIOHeader_Short(parts) == Len(parts) >= 11 /\ parts[1] = S_nread

\* the test that ends the search for the header
IsIOHeader(parts) == Len(parts) >= 12 /\ parts[1] = S_nread

\* variant: a counter already set by an earlier row is kept
ioAssign_FirstWins(stats, key, value) ==
    IF key = S_reads /\ stats.readCount = Zero THEN [stats EXCEPT !.readCount = value]
    ELSE IF key = S_writes /\ stats.writeCount = Zero THEN [stats EXCEPT !.writeCount = value]
    ELSE IF key = S_nread /\ stats.bytesRead = Zero THEN [stats EXCEPT !.bytesRead = value]
    ELSE IF key = S_nwritten /\ stats.bytesWritten = Zero THEN [stats EXCEPT !.bytesWritten = value]
    ELSE stats

\* the switch on key
ioAssign(stats, key, value) ==
    IF key = S_reads THEN [stats EXCEPT !.readCount = value]
    ELSE IF key = S_writes THEN [stats EXCEPT !.writeCount = value]
    ELSE IF key = S_nread THEN [stats EXCEPT !.bytesRead = value]
    ELSE IF key = S_nwritten THEN [stats EXCEPT !.bytesWritten = value]
    ELSE stats

\* for index, key := range fields, from position index on; parts[index]
\* beyond the end of parts is an index out of range, a run-time panic
RECURSIVE ioRow(_, _, _)
ioRow(st, parts, index) ==
    IF index > Len(st.fields)
    THEN st
    ELSE IF index > Len(parts)
         THEN [st EXCEPT !.outcome = "panic"]
         ELSE LET p == ParseUint(parts[index])
              IN  IF ~p.ok
                  THEN [st EXCEPT !.outcome = "error",
                           !.err = NewErr("could not parse unsigned integer for",
                                          st.fields[index])]
                  ELSE ioRow([st EXCEPT !.stats = ioAssign(@, st.fields[index], p.value)],
                             parts, index + 1)

\* one iteration of the scanner loop
ioLine(st, line) ==
    LET parts == Fields(ScanText(line))
    IN  IF st.skipParsing /\ IsIOHeader(parts)
        THEN [st EXCEPT !.skipParsing = FALSE, !.fields = parts]
        ELSE IF st.skipParsing
             THEN st
             ELSE ioRow(st, parts, 1)

RECURSIVE ioScan(_, _, _)
ioScan(st, lines, i) ==
    IF i > Len(lines) \/ st.outcome # "scan"
    THEN st
    ELSE ioScan(ioLine(st, lines[i]), lines, i + 1)

\* what the function hands to its caller: outcome "ok", "error" or "panic"
ioReturn(st) ==
    [stats |-> st.stats, err |-> st.err,
     outcome |-> IF st.outcome = "scan" THEN "ok" ELSE st.outcome]

parsePoolIOStats(stream) == ioReturn(ioScan(ioInit, stream.lines, 1))

(***************************************************************************)
(* parsePoolState                                                          *)
(***************************************************************************)
\* variant: the first line is upper-cased but not trimmed
parsePoolState_NoTrim(stream) ==
    IF Len(stream.lines) = 0
    THEN [state |-> <<>>,
          err |-> IF ~stream.rdErr
                  THEN NewErr("could not read state: EOF", <<>>)
                  ELSE NewErr("could not read state: read error", <<>>)]
    ELSE [state |-> ToUpper(ScanText(stream.lines[1])), err |-> NoErr]

\* scanner.Scan() once, then ToUpper(TrimSpace(scanner.Text()))
parsePoolState(stream) ==
    IF Len(stream.lines) = 0
    THEN [state |-> <<>>,
          err |-> IF ~stream.rdErr
                  THEN NewErr("could not read state: EOF", <<>>)
                  ELSE NewErr("could not read state: read error", <<>>)]
    ELSE [state |-> ToUpper(TrimSpace(ScanText(stream.lines[1]))), err |-> NoErr]

(***************************************************************************)
(* Files and paths.  os.Open fails exactly when exists is FALSE.           *)
(***************************************************************************)
NoFile == [exists |-> FALSE, lines |-> <<>>, rdErr |-> FALSE]
File(lines, rdErr) == [exists |-> TRUE, lines |-> lines, rdErr |-> rdErr]

zfsProcBasePath == <<"proc", "spl", "kstat", "zfs">>
\* filepath.Dir and filepath.Base on a path given by its components
Dir(path) == SubSeq(path, 1, Len(path) - 1)
Base(path) == path[Len(path)]

Warning(text) == [text |-> text, key |-> <<>>, value |-> <<>>]

(***************************************************************************)
(* collectGlobal: the new globalStats, the warnings added, the error       *)
(* returned and the handles opened and closed.                             *)
(***************************************************************************)
\* variant: a failing open is returned as an error
collectGlobal_OpenFatal(gs, file) ==
    IF file.exists
    THEN LET r == parseGlobalStats(file)
         IN  IF r.err = NoErr
             THEN [globalStats |->
                      [arcSize |-> IF S_size \in DOMAIN r.metrics
                                   THEN r.metrics[S_size] ELSE gs.arcSize,
                       arcHits |-> IF S_hits \in DOMAIN r.metrics
                                   THEN r.metrics[S_hits] ELSE gs.arcHits,
                       arcMisses |-> IF S_misses \in DOMAIN r.metrics
                                     THEN r.metrics[S_misses] ELSE gs.arcMisses],
                   warns |-> r.warns, err |-> NoErr,
                   opened |-> {"arcstats"}, closed |-> {}]
             ELSE [globalStats |-> gs,
                   warns |-> Append(r.warns, Warning("could not parse arc statistics")),
                   err |-> NoErr, opened |-> {"arcstats"}, closed |-> {}]
    ELSE [globalStats |-> gs,
          warns |-> <<Warning("could not gather arc statistics")>>,
          err |-> NewErr("could not gather arc statistics", <<>>),
          opened |-> {}, closed |-> {}]

\* variant: a metric missing from the parsed map resets its field
collectGlobal_Reset(gs, file) ==
    IF file.exists
    THEN LET r == parseGlobalStats(file)
         IN  IF r.err = NoErr
             THEN [globalStats |->
                      [arcSize |-> IF S_size \in DOMAIN r.metrics
                                   THEN r.metrics[S_size] ELSE Zero,
                       arcHits |-> IF S_hits \in DOMAIN r.metrics
                                   THEN r.metrics[S_hits] ELSE Zero,
                       arcMisses |-> IF S_misses \in DOMAIN r.metrics
                                     THEN r.metrics[S_misses] ELSE Zero],
                   warns |-> r.warns, err |-> NoErr,
                   opened |-> {"arcstats"}, closed |-> {}]
             ELSE [globalStats |-> gs,
                   warns |-> Append(r.warns, Warning("could not parse arc statistics")),
                   err |-> NoErr, opened |-> {"arcstats"}, closed |-> {}]
    ELSE [globalStats |-> gs,
          warns |-> <<Warning("could not gather arc statistics")>>,
          err |-> NoErr, opened |-> {}, closed |-> {}]

\* the opened file is never closed: no Close call and no defer
collectGlobal(gs, file) ==
    IF file.exists
    THEN LET r == parseGlobalStats(file)
         IN  IF r.err = NoErr
             THEN [globalStats |->
                      [arcSize |-> IF S_size \in DOMAIN r.metrics
                                   THEN r.metrics[S_size] ELSE gs.arcSize,
                       arcHits |-> IF S_hits \in DOMAIN r.metrics
                                   THEN r.metrics[S_hits] ELSE gs.arcHits,
                       arcMisses |-> IF S_misses \in DOMAIN r.metrics
                                     THEN r.metrics[S_misses] ELSE gs.arcMisses],
                   warns |-> r.warns, err |-> NoErr,
                   opened |-> {"arcstats"}, closed |-> {}]
             ELSE [globalStats |-> gs,
                   warns |-> Append(r.warns, Warning("could not parse arc statistics")),
                   err |-> NoErr, opened |-> {"arcstats"}, closed |-> {}]
    ELSE [globalStats |-> gs,
          warns |-> <<Warning("could not gather arc statistics")>>,
          err |-> NoErr, opened |-> {}, closed |-> {}]

(***************************************************************************)
(* updatePoolStats: the stats and error returned, whether the call ends by *)
(* returning or by a panic, and the handles opened and closed (the         *)
(* deferred Close calls run on return and on panic alike).                 *)
(***************************************************************************)
ZeroPoolStats == [state |-> <<>>, io |-> ZeroIO]

updatePoolStats(stateFile, ioStatsFile) ==
    IF ~stateFile.exists
    THEN [stats |-> ZeroPoolStats, outcome |-> "error",
          err |-> NewErr("could not open state file", <<>>),
          opened |-> {}, closed |-> {}]
    ELSE IF ~ioStatsFile.exists
    THEN [stats |-> ZeroPoolStats, outcome |-> "error",
          err |-> NewErr("could not open i/o stats file", <<>>),
          opened |-> {"state"}, closed |-> {"state"}]
    ELSE LET s == parsePoolState(stateFile)
         IN  IF s.err # NoErr
             THEN [stats |-> [state |-> s.state, io |-> ZeroIO], outcome |-> "error",
                   err |-> Wrap("could not gather state", s.err),
                   opened |-> {"state", "io"}, closed |-> {"state", "io"}]
             ELSE LET i == parsePoolIOStats(ioStatsFile)
                  IN  [stats |-> [state |-> s.state, io |-> i.stats],
                       outcome |-> i.outcome,
                       err |-> IF i.outcome = "error"
                               THEN Wrap("could not gather i/o stats", i.err)
                               ELSE NoErr,
                       opened |-> {"state", "io"}, closed |-> {"state", "io"}]

(***************************************************************************)
(* collectPools: one iteration of the loop over globMatches, on the map    *)
(* ps that r.poolStats holds.                                              *)
(***************************************************************************)
EmptyPools == [k \in {} |-> ZeroPoolStats]

collectPoolsIter(ps, globMatch, stateFile, ioStatsFile) ==
    LET poolPath == Dir(globMatch)
        poolName == Base(poolPath)
        r == updatePoolStats(stateFile, ioStatsFile)
    IN  IF r.outcome = "panic"
        THEN [m |-> ps, outcome |-> "panic", err |-> NoErr, wrote |-> {},
              opened |-> r.opened, closed |-> r.closed]
        ELSE IF r.err # NoErr
        THEN [m |-> ps, outcome |-> "error",
              err |-> Wrap("could not gather zfs pool statistics", r.err),
              wrote |-> {}, opened |-> r.opened, closed |-> r.closed]
        ELSE [m |-> MapSet(ps, poolName, r.stats), outcome |-> "ok", err |-> NoErr,
              wrote |-> {poolName}, opened |-> r.opened, closed |-> r.closed]

(***************************************************************************)
(* The contents the files under /proc/spl/kstat/zfs take in the model.     *)
(***************************************************************************)
RECURSIVE Join(_)
Join(tokens) ==
    IF Len(tokens) = 0 THEN <<>>
    ELSE IF Len(tokens) = 1 THEN tokens[1]
    ELSE tokens[1] \o <<" ">> \o Join(Tail(tokens))

\* the decimal text of a sequence of digits
NumTok(ds) == [i \in 1..Len(ds) |-> Digits[ds[i] + 1]]

T_x == <<"x">>
T_3 == <<"3">>
T_1024 == NumTok(<<1,0,2,4>>)
T_2048 == NumTok(<<2,0,4,8>>)
T_4096 == NumTok(<<4,0,9,6>>)
T_50 == NumTok(<<5,0>>)
T_007 == NumTok(<<0,0,7>>)
T_max == NumTok(MaxUint64)
T_over == NumTok(<<1,8,4,4,6,7,4,4,0,7,3,7,0,9,5,5,1,6,1,6>>)

\* arcstats lines
A_header == Join(<<S_name, S_type, S_data>>)
A_headerWs == <<" ">> \o S_name \o <<"\t", " ">> \o S_type \o <<" ">> \o S_data \o <<" ", "\r">>
A_header4 == Join(<<S_name, S_type, S_data, T_x>>)
A_size == Join(<<S_size, zfsTypeUint64, T_1024>>)
A_size7 == Join(<<S_size, zfsTypeUint64, T_007, T_x>>)
A_hits == Join(<<S_hits, zfsTypeUint64, T_50>>)
A_hitsBad == Join(<<S_hits, zfsTypeUint64, T_x>>)
A_hitsOver == Join(<<S_hits, zfsTypeUint64, T_over>>)
A_misses == Join(<<S_misses, zfsTypeUint64, T_max>>)
A_missesStr == Join(<<S_misses, T_3, T_50>>)
A_short == Join(<<S_hits, zfsTypeUint64>>)

\* io lines: the kernel's header of twelve columns and variations of it
IOColumns == <<S_nread, S_nwritten, S_reads, S_writes,
               <<"w","t","i","m","e">>, <<"w","l","e","n","t","i","m","e">>,
               <<"w","u","p","d","a","t","e">>, <<"r","t","i","m","e">>,
               <<"r","l","e","n","t","i","m","e">>, <<"r","u","p","d","a","t","e">>,
               <<"w","c","n","t">>, <<"r","c","n","t">>>>
\* n copies of token t
Rep(t, n) == [i \in 1..n |-> t]
H_12 == Join(IOColumns)
H_11 == Join(SubSeq(IOColumns, 1, 11))
H_dup == Join(<<S_nread, S_reads, S_reads, S_nread>> \o SubSeq(IOColumns, 5, 12))
R_a == Join(<<T_2048, T_4096, NumTok(<<1,0>>), NumTok(<<2,0>>)>> \o Rep(NumTok(<<0>>), 8))
R_b == Join(<<T_007, T_max, T_3, T_50>> \o Rep(NumTok(<<1>>), 9))
R_bad == Join(<<T_2048, T_over, T_x, T_50>> \o Rep(NumTok(<<0>>), 8))
R_short == Join(<<T_2048, T_4096, T_3>>)
R_shortBad == Join(<<T_2048, T_x>>)
R_blank == <<>>

\* state lines
ST_online == <<" ", " ", "o", "n", "l", "i", "n", "e">>
ST_degraded == <<"\t", "D", "e", "g", "r", "a", "d", "e", "d", " ">>
ST_blank == <<" ", "\t">>

\* the files one Collect call may find
ArcFiles ==
    { NoFile,
      File(<<A_header, A_size, A_hits, A_misses>>, FALSE),
      File(<<A_size, A_headerWs, A_size7, A_hitsBad>>, FALSE),
      File(<<A_header>>, FALSE),
      File(<<A_size, A_hitsBad, A_header4>>, FALSE),
      File(<<>>, FALSE) }

StateFiles ==
    { NoFile,
      File(<<>>, FALSE),
      File(<<>>, TRUE),
      File(<<ST_online>>, FALSE),
      File(<<ST_degraded, ST_online>>, TRUE),
      File(<<ST_blank, ST_online>>, FALSE) }

IOFiles ==
    { NoFile,
      File(<<H_12, R_a>>, FALSE),
      File(<<H_12, R_a, R_bad>>, FALSE),
      File(<<H_12, R_blank>>, FALSE) }

PoolNames == <<"rpool", "tank", "zdata">>

RECURSIVE Ordered(_)
Ordered(S) ==
    IF S = {} THEN <<>> ELSE <<SetMin(S)>> \o Ordered(S \ {SetMin(S)})

\* the sorted paths Glob returns for the pools with the indices in S
MatchesOf(S) ==
    LET o == Ordered(S)
    IN  [i \in 1..Len(o) |-> zfsProcBasePath \o <<PoolNames[o[i]], "io">>]

\* filepath.Glob: an error (ErrBadPattern is the only one it returns), or the
\* sorted matches, nil when there are none
GlobResults ==
    { [called |-> TRUE, err |-> TRUE, matches |-> <<>>] } \cup
    { [called |-> TRUE, err |-> FALSE, matches |-> MatchesOf(S)] :
        S \in {T \in SUBSET (1..Len(PoolNames)) : Cardinality(T) <= MaxPools} }

NoGlob == [called |-> FALSE, err |-> FALSE, matches |-> <<>>]
NoFiles == [arc |-> NoFile, state |-> NoFile, io |-> NoFile]
NoStream == [lines |-> <<>>, rdErr |-> FALSE]

(***************************************************************************)
(* The resource: a sequence of Collect calls on one zfsResource.           *)
(***************************************************************************)
\* a zfsResource as constructed: zero globalStats, nil poolStats
ResourceInit ==
    /\ globalStats = [arcSize |-> Zero, arcHits |-> Zero, arcMisses |-> Zero]
    /\ poolStats = [isNil |-> TRUE, m |-> EmptyPools]
    /\ warnings = <<>>
    /\ pc = "idle"
    /\ err = NoErr
    /\ globMatches = NoGlob
    /\ rest = <<>>
    /\ stored = {}
    /\ handles = {}
    /\ files = NoFiles
    /\ passes = 0

NoRet == [done |-> FALSE, outcome |-> "none", err |-> NoErr]

Init ==
    /\ ResourceInit
    /\ input = NoStream
    /\ pos = 0
    /\ pstate = ioInit
    /\ ret = NoRet

\* a caller invokes Collect with a fresh warning collection
Collect ==
    /\ pc \in {"idle", "done"}
    /\ passes < MaxPasses
    /\ passes' = passes + 1
    /\ pc' = "global"
    /\ warnings' = <<>>
    /\ err' = NoErr
    /\ globMatches' = NoGlob
    /\ rest' = <<>>
    /\ stored' = {}
    /\ handles' = {}
    /\ files' = NoFiles
    /\ UNCHANGED <<globalStats, poolStats, parserVars>>

\* r.collectGlobal(zfsProcBasePath, warnings) and the test of its error
CollectGlobal ==
    /\ pc = "global"
    /\ \E f \in ArcFiles :
          LET r == collectGlobal(globalStats, f)
          IN  /\ globalStats' = r.globalStats
              /\ warnings' = warnings \o r.warns
              /\ handles' = (handles \cup r.opened) \ r.closed
              /\ files' = [files EXCEPT !.arc = f]
              /\ err' = r.err
              /\ pc' = IF r.err # NoErr THEN "done" ELSE "pools"
    /\ UNCHANGED <<poolStats, globMatches, rest, stored, passes, parserVars>>

\* collectPools up to the loop: Glob, its error, the nil test and make()
CollectPoolsGlob ==
    /\ pc = "pools"
    /\ \E g \in GlobResults :
          /\ globMatches' = g
          /\ \/ /\ g.err
                /\ err' = NewErr("could not glob zfs pool paths", <<>>)
                /\ pc' = "done"
                /\ UNCHANGED <<poolStats, rest>>
             \/ /\ ~g.err
                /\ g.matches = <<>>
                /\ err' = NoErr
                /\ pc' = "done"
                /\ UNCHANGED <<poolStats, rest>>
             \/ /\ ~g.err
                /\ g.matches # <<>>
                /\ poolStats' = [isNil |-> FALSE, m |-> EmptyPools]
                /\ rest' = g.matches
                /\ pc' = "loop"
                /\ UNCHANGED err
    /\ UNCHANGED <<globalStats, warnings, stored, handles, files, passes, parserVars>>

\* one iteration of the loop of collectPools; after the last one, return nil
CollectPoolsLoop ==
    /\ pc = "loop"
    /\ \E sf \in StateFiles, iof \in IOFiles :
          LET r == collectPoolsIter(poolStats.m, Head(rest), sf, iof)
          IN  /\ files' = [files EXCEPT !.state = sf, !.io = iof]
              /\ handles' = (handles \cup r.opened) \ r.closed
              /\ poolStats' = [poolStats EXCEPT !.m = r.m]
              /\ stored' = stored \cup r.wrote
              /\ err' = r.err
              /\ \/ /\ r.outcome = "panic"
                    /\ pc' = "panic"
                    /\ UNCHANGED rest
                 \/ /\ r.outcome = "error"
                    /\ pc' = "done"
                    /\ UNCHANGED rest
                 \/ /\ r.outcome = "ok"
                    /\ rest' = Tail(rest)
                    /\ pc' = IF Len(rest) = 1 THEN "done" ELSE "loop"
    /\ UNCHANGED <<globalStats, warnings, globMatches, passes, parserVars>>

Next == Collect \/ CollectGlobal \/ CollectPoolsGlob \/ CollectPoolsLoop

Spec == Init /\ [][Next]_vars

(***************************************************************************)
(* parsePoolIOStats on its own: the scanner loop, one line per step.       *)
(***************************************************************************)
\* the sequences over S of length at most n
SeqsUpTo(S, n) == UNION {[1..k -> S] : k \in 0..n}

IOLines == {H_12, H_11, H_dup, R_a, R_b, R_bad, R_short, R_shortBad, R_blank}
IOStreams == {[lines |-> l, rdErr |-> FALSE] : l \in SeqsUpTo(IOLines, MaxLines)}

InitIO ==
    /\ ResourceInit
    /\ input \in IOStreams
    /\ pos = 0
    /\ pstate = ioInit
    /\ ret = NoRet

\* scanner.Scan() yields a line: the loop body runs, and returns on an error
IOScanLine ==
    /\ ~ret.done
    /\ pos < Len(input.lines)
    /\ pos' = pos + 1
    /\ pstate' = ioLine(pstate, input.lines[pos + 1])
    /\ ret' = IF pstate'.outcome = "scan"
              THEN ret
              ELSE [done |-> TRUE] @@ ioReturn(pstate')
    /\ UNCHANGED <<input, resourceVars>>

\* scanner.Scan() is false: return stats, nil
IOScanEnd ==
    /\ ~ret.done
    /\ pos = Len(input.lines)
    /\ ret' = [done |-> TRUE] @@ ioReturn(pstate)
    /\ UNCHANGED <<input, pos, pstate, resourceVars>>

NextIO == IOScanLine \/ IOScanEnd

SpecIO == InitIO /\ [][NextIO]_vars

(***************************************************************************)
(* parseGlobalStats on its own: the scanner loop, one line per step.       *)
(***************************************************************************)
ArcLines == {A_headerWs, A_header4, A_size, A_size7, A_hitsBad, A_hitsOver,
             A_misses, A_missesStr, A_short}
\* every short sequence of these lines, and the contents of ArcFiles
ArcStreams ==
    {[lines |-> l, rdErr |-> FALSE] : l \in SeqsUpTo(ArcLines, MaxLines)} \cup
    {[lines |-> f.lines, rdErr |-> f.rdErr] : f \in {g \in ArcFiles : g.exists}}

InitGlobal ==
    /\ ResourceInit
    /\ input \in ArcStreams
    /\ pos = 0
    /\ pstate = globalInit
    /\ ret = NoRet

GlobalScanLine ==
    /\ ~ret.done
    /\ pos < Len(input.lines)
    /\ pos' = pos + 1
    /\ pstate' = globalLine(pstate, input.lines[pos + 1])
    /\ UNCHANGED <<input, ret, resourceVars>>

GlobalScanEnd ==
    /\ ~ret.done
    /\ pos = Len(input.lines)
    /\ ret' = [done |-> TRUE, outcome |-> "ok"] @@ globalReturn(pstate)
    /\ UNCHANGED <<input, pos, pstate, resourceVars>>

NextGlobal == GlobalScanLine \/ GlobalScanEnd

SpecGlobal == InitGlobal /\ [][NextGlobal]_vars

(***************************************************************************)
(* Properties.                                                             *)
(***************************************************************************)
\* the scanned fields of line i of a sequence of lines
PartsOf(lines, i) == Fields(ScanText(lines[i]))

\* the name of the pool the last iteration of the loop of collectPools visited
VisitedOk == pc = "loop" \/ (pc = "done" /\ err = NoErr /\ ~globMatches.err
                             /\ globMatches.matches # <<>>)
VisitedPool ==
    IF VisitedOk
    THEN Base(Dir(globMatches.matches[Len(globMatches.matches) - Len(rest)]))
    ELSE Base(Dir(Head(rest)))
\* an iteration of the loop of collectPools has run in this call
LoopRan == pc \in {"loop", "done", "panic"} /\ globMatches.called /\ ~globMatches.err
           /\ globMatches.matches # <<>> /\ (pc = "loop" => Len(rest) < Len(globMatches.matches))

\* C1: after a Collect call that returns an error, the exposed pool map holds
\* no entry written during that call.
C1_NoPartialPoolMap ==
    (pc = "done" /\ err # NoErr) =>
        \A name \in stored : poolStats.isNil \/ name \notin DOMAIN poolStats.m

\* C2: after Collect returns, with or without an error, no file handle opened
\* by that call is still open.
C2_HandlesClosed == pc = "done" => handles = {}

\* C3: a Collect call whose pool discovery matches nothing returns no error
\* and leaves the resource without pool entries (a nil pool map), also when
\* an earlier call stored pools.
C3_ZeroMatchesNoPools ==
    (pc = "done" /\ globMatches.called /\ ~globMatches.err /\ globMatches.matches = <<>>)
        => (err = NoErr /\ poolStats.isNil)

\* the positions of parts, within the header's length, that are no uint64
BadColumns(fields, parts) ==
    {i \in 1..Len(fields) : i <= Len(parts) /\ ~ParseUint(parts[i]).ok}

\* C4: every line read after the header is either consumed, the scan going
\* on, or ends the parse with an error naming the first header column whose
\* value is no unsigned integer; the parse ends in no other way.
C4_RowConsumedOrError ==
    (~pstate.skipParsing /\ pstate.outcome # "scan") =>
        /\ pstate.outcome = "error"
        /\ LET bad == BadColumns(pstate.fields, PartsOf(input.lines, pos))
           IN  bad # {} /\ pstate.err.key = pstate.fields[SetMin(bad)]

\* some line of lines is the header `name type data`
HasArcHeader(lines) ==
    \E i \in 1..Len(lines) : PartsOf(lines, i) = <<S_name, S_type, S_data>>

\* C5: a failure of the global statistics (arcstats cannot be opened, or
\* holds no header) adds exactly one warning and never fails the call: every
\* call that ends has run pool discovery, and an error it returns is a
\* discovery error or the error of a pool read.
C5_GlobalFailureIsWarning ==
    /\ (pc \in {"pools", "loop", "done", "panic"}
          /\ (~files.arc.exists \/ ~HasArcHeader(files.arc.lines)))
       => Len(warnings) = 1
    /\ pc \in {"done", "panic"} => globMatches.called
    /\ (pc = "done" /\ err # NoErr) =>
          \/ globMatches.err
          \/ /\ LoopRan
             /\ updatePoolStats(files.state, files.io).outcome = "error"

C5_Witness ==
    /\ pc = "done" /\ err = NoErr /\ passes = 1
    /\ files.arc.exists /\ ~HasArcHeader(files.arc.lines) /\ Len(files.arc.lines) = 3
    /\ Len(warnings) = 1
    /\ stored = {"rpool", "tank"}

\* the value a field of globalStats has after a step, given the metric key
\* it is filled from
FieldAfter(old, key) ==
    IF pc = "global" /\ files'.arc.exists /\ HasArcHeader(files'.arc.lines)
       /\ key \in DOMAIN parseGlobalStats(files'.arc).metrics
    THEN parseGlobalStats(files'.arc).metrics[key]
    ELSE old

\* C6: arcSize, arcHits and arcMisses start at zero, and a step changes one
\* of them only when arcstats was opened, its header found and the parsed
\* map holds the key size, hits or misses; otherwise the field keeps its
\* value.
C6_GlobalStatsFrame ==
    /\ globalStats = [arcSize |-> Zero, arcHits |-> Zero, arcMisses |-> Zero]
    /\ [][/\ globalStats'.arcSize = FieldAfter(globalStats.arcSize, S_size)
          /\ globalStats'.arcHits = FieldAfter(globalStats.arcHits, S_hits)
          /\ globalStats'.arcMisses = FieldAfter(globalStats.arcMisses, S_misses)]_vars

\* second call: size is overwritten, hits (malformed) and misses (absent) kept
C6_Witness ==
    /\ pc = "pools" /\ passes = 2
    /\ files.arc = File(<<A_size, A_headerWs, A_size7, A_hitsBad>>, FALSE)
    /\ globalStats = [arcSize |-> <<7>>, arcHits |-> <<5, 0>>, arcMisses |-> MaxUint64]

\* the first header line of an arcstats stream, 0 when there is none
ArcHeaderAt(lines) ==
    IF HasArcHeader(lines)
    THEN SetMin({i \in 1..Len(lines) : PartsOf(lines, i) = <<S_name, S_type, S_data>>})
    ELSE 0
\* the lines after the header that are rows of type 4
ArcRows(lines) ==
    {i \in (ArcHeaderAt(lines) + 1)..Len(lines) :
        Len(PartsOf(lines, i)) >= 3 /\ PartsOf(lines, i)[2] = <<"4">>}
ArcGoodRows(lines) == {i \in ArcRows(lines) : ParseUint(PartsOf(lines, i)[3]).ok}

\* C7: for an input holding the header, parseGlobalStats returns no error
\* and a map whose keys are those of the lines after the first header with
\* at least 3 fields, type 4 and a value that is a uint64, each with the
\* value of its last such line; every type-4 line with another value adds
\* one warning.
C7_GlobalMap ==
    (ret.done /\ HasArcHeader(input.lines)) =>
        LET good == ArcGoodRows(input.lines)
        IN  /\ ret.err = NoErr
            /\ DOMAIN ret.metrics = {PartsOf(input.lines, i)[1] : i \in good}
            /\ \A i \in good :
                  (\A j \in good : PartsOf(input.lines, j)[1] = PartsOf(input.lines, i)[1]
                                      => j <= i)
                  => ret.metrics[PartsOf(input.lines, i)[1]]
                        = ParseUint(PartsOf(input.lines, i)[3]).value
            /\ Len(ret.warns) = Cardinality(ArcRows(input.lines) \ good)

C7_Witness ==
    /\ ret.done
    /\ input.lines = <<A_header, A_size, A_hits, A_misses>>
    /\ ret.err = NoErr
    /\ DOMAIN ret.metrics = {S_size, S_hits, S_misses}
    /\ ret.metrics[S_size] = <<1, 0, 2, 4>>
    /\ ret.metrics[S_hits] = <<5, 0>>
    /\ ret.metrics[S_misses] = MaxUint64
    /\ ret.warns = <<>>

\* line i is one that ends the search for the header of the io table
IsHeaderLine(lines, i) ==
    Len(PartsOf(lines, i)) >= 12 /\ PartsOf(lines, i)[1] = S_nread

\* C8: the scanner leaves the search for the header only on a line of at
\* least 12 fields whose first is nread; an input without such a line gives
\* no error and four zero counters, and the pool is stored with that record.
C8_SeekingHeader ==
    /\ [](  (ret.done /\ \A i \in 1..Len(input.lines) : ~IsHeaderLine(input.lines, i))
          => /\ ret.outcome = "ok" /\ ret.err = NoErr /\ ret.stats = ZeroIO
             /\ LET r == collectPoolsIter(EmptyPools, zfsProcBasePath \o <<"tank", "io">>,
                                          File(<<ST_online>>, FALSE),
                                          File(input.lines, input.rdErr))
                IN  r.outcome = "ok" /\ DOMAIN r.m = {"tank"} /\ r.m["tank"].io = ZeroIO)
    /\ [][(pstate.skipParsing /\ ~pstate'.skipParsing)
             => (pos' = pos + 1 /\ IsHeaderLine(input.lines, pos'))]_vars

C8_Witness ==
    /\ ret.done /\ ret.outcome = "ok" /\ ret.stats = ZeroIO
    /\ input.lines = <<H_11, R_a, R_bad>>

\* C9: parsePoolState returns the first line of the stream, trimmed and in
\* upper case, whatever follows it; a stream without a first line gives an
\* error (EOF when the read itself did not fail) that ends the Collect call
\* with an error and without a state for the pool.
C9_PoolState ==
    (LoopRan /\ files.state.exists /\ files.io.exists) =>
        IF Len(files.state.lines) = 0
        THEN /\ pc = "done" /\ err # NoErr
             /\ ~files.state.rdErr => err.msg[Len(err.msg)] = "could not read state: EOF"
             /\ files.state.rdErr => err.msg[Len(err.msg)] # "could not read state: EOF"
             /\ VisitedPool \notin DOMAIN poolStats.m
        ELSE VisitedOk =>
                poolStats.m[VisitedPool].state
                    = ToUpper(TrimSpace(files.state.lines[1]))

C9_Witness ==
    /\ pc = "done" /\ err = NoErr
    /\ files.state = File(<<ST_degraded, ST_online>>, TRUE)
    /\ DOMAIN poolStats.m = {"rpool", "zdata"}
    /\ poolStats.m["rpool"].state = <<"O", "N", "L", "I", "N", "E">>
    /\ poolStats.m["zdata"].state = <<"D", "E", "G", "R", "A", "D", "E", "D">>

\* the first header line of an io stream, 0 when there is none
IOHeaderAt(lines) ==
    IF \E i \in 1..Len(lines) : IsHeaderLine(lines, i)
    THEN SetMin({i \in 1..Len(lines) : IsHeaderLine(lines, i)})
    ELSE 0

\* the counter filled from column name: the last row's value at the (last)
\* position of that name in the header, zero without such a column or row
LastRowValue(lines, name) ==
    LET h == IOHeaderAt(lines)
        cols == IF h = 0 THEN {}
                ELSE {p \in 1..Len(PartsOf(lines, h)) : PartsOf(lines, h)[p] = name}
    IN  IF h = 0 \/ h = Len(lines) \/ cols = {}
        THEN Zero
        ELSE ParseUint(PartsOf(lines, Len(lines))[SetMax(cols)]).value

\* C10: when every data row parses, each counter whose column is in the
\* header ends with the last row's value at that column, without summing
\* over rows, and a counter whose column is absent stays zero.
C10_LastRowWins ==
    (ret.done /\ ret.outcome = "ok") =>
        /\ ret.stats.readCount = LastRowValue(input.lines, S_reads)
        /\ ret.stats.writeCount = LastRowValue(input.lines, S_writes)
        /\ ret.stats.bytesRead = LastRowValue(input.lines, S_nread)
        /\ ret.stats.bytesWritten = LastRowValue(input.lines, S_nwritten)

C10_Witness ==
    /\ ret.done /\ ret.outcome = "ok"
    /\ input.lines = <<H_12, R_a, R_b>>
    /\ ret.stats = [bytesRead |-> <<7>>, bytesWritten |-> MaxUint64,
                    readCount |-> <<3>>, writeCount |-> <<5, 0>>]

====
